---------------------------- MODULE Spec2Model ----------------------------
(***************************************************************************)
(* A model of lib/SocketTransport.js: the reconnecting socket transport.   *)
(*                                                                         *)
(* The transport object (its fields _socket, _state, _active and           *)
(* _reconnectTimeout), every socket it has constructed (readyState, the    *)
(* listeners attached to it) and the table of pending timers are the       *)
(* state.  Every method of the transport is an operator from a state       *)
(* record to a state record, translated statement by statement; an action  *)
(* is one run of one handler of the event loop: a call by the user, an     *)
(* event dispatched by a socket, or the firing of a timer.                 *)
(***************************************************************************)
EXTENDS Naturals, Sequences, FiniteSets

VARIABLES
    _socket,            \* this._socket: 0 is null, otherwise a socket id
    _state,             \* this._state
    _active,            \* this._active
    _reconnectTimeout,  \* this._reconnectTimeout: 0 is null, otherwise a timer id
    readyState,         \* readyState of every socket constructed so far
    listeners,          \* per socket: the events the standard listeners are attached for
    errored,            \* per socket: it can dispatch no error event any more
    timers,             \* the timers scheduled by setTimeout and neither fired nor cleared
    nextSock,           \* id of the next socket `new SocketConstructor` yields
    nextTimer,          \* handle the next setTimeout returns
    stale,              \* history: the sockets constructed before the latest stop() call
    notified,           \* history: a connect notification is out, no disconnect after it
    last                \* history: the handler that ran last and what it did

vars == <<_socket, _state, _active, _reconnectTimeout, readyState, listeners,
          errored, timers, nextSock, nextTimer, stale, notified, last>>

\* ---------------------------------------------------------------- bounds

\* sockets the transport may construct in one run
MaxSockets == 3

SocketIds == 1 .. MaxSockets
Payloads == {"p1", "p2"}
Errors == {"e1", "e2"}

\* ------------------------------------------------------ program constants

states == {"unconnected", "connecting", "connected", "retrying"}

StandardEvents == {"open", "error", "close", "message"}

\* The two listener-removal styles _teardown knows of.
RemovalAPIs == {{"removeEventListener"}, {"removeListener"}}

NoError == [name |-> "none", state |-> "none", readyState |-> "none"]

SocketTransportStateError(state, rs) ==
    [name |-> "SocketTransportStateError", state |-> state, readyState |-> rs]

\* `null.send(...)` / `null.readyState`
TypeError == [name |-> "TypeError", state |-> "none", readyState |-> "none"]

\* ------------------------------------------------------------ state record

\* The state a handler starts from: nothing emitted, nothing thrown yet.
\* removalAPI is the set of listener-removal methods the socket that
\* _teardown meets has; the steps that can reach _teardown choose it.
Cur ==
    [socket |-> _socket, state |-> _state, active |-> _active,
     reconnectTimeout |-> _reconnectTimeout, readyState |-> readyState,
     listeners |-> listeners, errored |-> errored, timers |-> timers,
     nextSock |-> nextSock, nextTimer |-> nextTimer, removalAPI |-> {},
     fx |-> <<>>, thrown |-> NoError]

\* One observable effect of a handler, in the order the handler produced them.
Effect(kind, name, sock, arg) == [kind |-> kind, name |-> name, sock |-> sock, arg |-> arg]

\* EventEmitter2's emit, called on the transport.
Emit(st, name, arg) == [st EXCEPT !.fx = Append(@, Effect("emit", name, 0, arg))]

\* A method call on a socket object.
Call(st, name, sock, arg) == [st EXCEPT !.fx = Append(@, Effect("call", name, sock, arg))]

Throw(st, err) == [st EXCEPT !.thrown = err]

WithAPI(st, api) == [st EXCEPT !.removalAPI = api]

\* ------------------------------------------------------ transport methods

_setup(st) ==
    [Call(st, "addEventListener", st.socket, "all")
        EXCEPT !.listeners[st.socket] = @ \cup StandardEvents]

_connect(st) ==
    LET id == st.nextSock
    IN  _setup([Call(st, "new", id, "URL")
                    EXCEPT !.socket = id,
                           !.nextSock = id + 1,
                           !.readyState[id] = "CONNECTING"])

_teardown(st) ==
    IF st.socket = 0 THEN st
    ELSE IF "removeEventListener" \in st.removalAPI
    THEN [Call(st, "removeEventListener", st.socket, "all")
            EXCEPT !.listeners[st.socket] = @ \ StandardEvents]
    ELSE IF "removeListener" \in st.removalAPI
    THEN [Call(st, "removeListener", st.socket, "all")
            EXCEPT !.listeners[st.socket] = @ \ StandardEvents]
    ELSE st

\* socket.close(): starts the closing handshake of a socket that is not yet
\* closing or closed; closeThrows is the case that the call raises instead
\* ("this probably means that the socket is already closed").
SocketClose(st, s, closeThrows) ==
    IF closeThrows THEN Call(st, "close", s, "throws")
    ELSE [Call(st, "close", s, "none")
            EXCEPT !.readyState[s] =
                IF @ \in {"CONNECTING", "OPEN"} THEN "CLOSING" ELSE @]

_disconnect(st, closeThrows) ==
    LET s1 == IF st.reconnectTimeout # 0
              THEN [Call(st, "clearTimeout", 0, "none")
                        EXCEPT !.timers = @ \ {st.reconnectTimeout},
                               !.reconnectTimeout = 0]
              ELSE st
        \* this._socket.close() inside try/catch: on a null _socket the
        \* TypeError is swallowed like any error of close()
        s2 == IF s1.socket = 0 THEN s1 ELSE SocketClose(s1, s1.socket, closeThrows)
    IN  [s2 EXCEPT !.socket = 0]

_handleOpen(st) == Emit([st EXCEPT !.state = "connected"], "connect", "none")

\* A variant that constructs the socket and attaches no listeners to it.
TimerCallback_NoSetup(st) ==
    [Call(st, "new", st.nextSock, "URL")
        EXCEPT !.reconnectTimeout = 0,
               !.state = "connecting",
               !.socket = st.nextSock,
               !.nextSock = @ + 1,
               !.readyState[st.nextSock] = "CONNECTING"]

\* The callback given to setTimeout by _retryConnection.
TimerCallback(st) ==
    _connect([st EXCEPT !.reconnectTimeout = 0, !.state = "connecting"])

_retryConnection(st) ==
    IF st.state # "retrying"
    THEN [Call(st, "setTimeout", 0, "none")
            EXCEPT !.state = "retrying",
                   !.reconnectTimeout = st.nextTimer,
                   !.timers = @ \cup {st.nextTimer},
                   !.nextTimer = @ + 1]
    ELSE st

\* A variant that schedules the retry whether the transport is active or not.
_handleDisconnect_AlwaysRetries(st) ==
    LET stateAtDisconnectTime == st.state
        s1 == _teardown([st EXCEPT !.state = "unconnected"])
        s2 == _retryConnection(s1)
    IN  IF stateAtDisconnectTime = "connected"
        THEN Emit(s2, "disconnect", "none")
        ELSE s2

\* A variant that retries only after an established connection was lost.
_handleDisconnect_RetryAfterConnectedOnly(st) ==
    LET stateAtDisconnectTime == st.state
        s1 == _teardown([st EXCEPT !.state = "unconnected"])
        s2 == IF s1.active /\ stateAtDisconnectTime = "connected"
              THEN _retryConnection(s1) ELSE s1
    IN  IF stateAtDisconnectTime = "connected"
        THEN Emit(s2, "disconnect", "none")
        ELSE s2

\* A variant that notifies of a disconnect whatever the state was.
_handleDisconnect_AlwaysNotifies(st) ==
    LET s1 == _teardown([st EXCEPT !.state = "unconnected"])
        s2 == IF s1.active THEN _retryConnection(s1) ELSE s1
    IN  Emit(s2, "disconnect", "none")

_handleDisconnect(st) ==
    LET stateAtDisconnectTime == st.state
        s1 == _teardown([st EXCEPT !.state = "unconnected"])
        s2 == IF s1.active THEN _retryConnection(s1) ELSE s1
    IN  IF stateAtDisconnectTime = "connected"
        THEN Emit(s2, "disconnect", "none")
        ELSE s2

_handleError(st, error) == _handleDisconnect(Emit(st, "error", error))

\* A variant whose message listener passes the event on, not its data.
StandardListener_EmitsEvent(st, ev, arg) ==
    CASE ev = "open"    -> _handleOpen(st)
      [] ev = "error"   -> _handleError(st, arg)
      [] ev = "close"   -> _handleDisconnect(st)
      [] ev = "message" -> Emit(st, "message", "[object MessageEvent]")

\* this._standardListeners: the four functions attached to every socket.
StandardListener(st, ev, arg) ==
    CASE ev = "open"    -> _handleOpen(st)
      [] ev = "error"   -> _handleError(st, arg)
      [] ev = "close"   -> _handleDisconnect(st)
      [] ev = "message" -> Emit(st, "message", arg)

\* A variant without the guard on _active.
start_Unguarded(st) == _connect([st EXCEPT !.active = TRUE])

start(st) ==
    IF ~st.active THEN _connect([st EXCEPT !.active = TRUE]) ELSE st

stop(st, closeThrows) ==
    IF st.active THEN _disconnect([st EXCEPT !.active = FALSE], closeThrows) ELSE st

\* A variant whose guard lets every state but unconnected through.
send_GuardsUnconnectedOnly(st, message, sendThrows) ==
    IF st.state = "unconnected"
    THEN Throw(st, SocketTransportStateError(st.state,
                      IF st.socket # 0 THEN st.readyState[st.socket] ELSE "null"))
    ELSE LET s1 == Emit(st, "send", message)
         IN  IF s1.socket = 0
             THEN Throw(s1, TypeError)
             ELSE LET s2 == Call(s1, "send", s1.socket, message)
                  IN  IF sendThrows
                      THEN Throw(s2, SocketTransportStateError(s2.state,
                                        s2.readyState[s2.socket]))
                      ELSE s2

\* A variant that hands the message to the socket before it emits send.
send_TransmitsFirst(st, message, sendThrows) ==
    IF st.state # "connected"
    THEN Throw(st, SocketTransportStateError(st.state,
                      IF st.socket # 0 THEN st.readyState[st.socket] ELSE "null"))
    ELSE IF st.socket = 0
         THEN Throw(st, TypeError)
         ELSE LET s1 == Call(st, "send", st.socket, message)
              IN  IF sendThrows
                  THEN Throw(s1, SocketTransportStateError(s1.state,
                                    s1.readyState[s1.socket]))
                  ELSE Emit(s1, "send", message)

\* sendThrows: the socket's own send raises.
send(st, message, sendThrows) ==
    IF st.state # "connected"
    THEN Throw(st, SocketTransportStateError(st.state,
                      IF st.socket # 0 THEN st.readyState[st.socket] ELSE "null"))
    ELSE LET s1 == Emit(st, "send", message)
         IN  IF s1.socket = 0
             \* null.send raises a TypeError, which is caught; the catch block
             \* reads null.readyState and that TypeError leaves send
             THEN Throw(s1, TypeError)
             ELSE LET s2 == Call(s1, "send", s1.socket, message)
                  IN  IF sendThrows
                      THEN Throw(s2, SocketTransportStateError(s2.state,
                                        s2.readyState[s2.socket]))
                      ELSE s2

\* ------------------------------------------------------------ the sockets

\* A socket dispatches event ev: the standard listener runs if it is attached.
Dispatch(st, s, ev, arg) ==
    IF ev \in st.listeners[s] THEN StandardListener(st, ev, arg) ELSE st

\* ------------------------------------------------------------------ steps

Created == 1 .. (nextSock - 1)

\* What `last` records of a handler: op, the socket the event came from,
\* its argument, whether that socket was this._socket when the handler
\* began, and the effects and the error of the run.
Ran(op, s, arg, st) ==
    [op |-> op, sock |-> s, arg |-> arg,
     current |-> (s # 0 /\ s = _socket),
     fx |-> st.fx, thrown |-> st.thrown]

\* The same for an event of socket s: when no listener is attached for it
\* no handler runs at all.
Heard(ev, s, arg, st) ==
    IF ev \in listeners[s] THEN Ran(ev, s, arg, st) ELSE last

\* Whether, once the effects fx are out, the latest of the connect and
\* disconnect notifications is a connect.
Notified(fx) ==
    LET idx == {i \in DOMAIN fx : fx[i].kind = "emit"
                                  /\ fx[i].name \in {"connect", "disconnect"}}
    IN  IF idx = {} THEN notified
        ELSE fx[CHOOSE i \in idx : \A j \in idx : j <= i].name = "connect"

Commit(st) ==
    /\ _socket' = st.socket
    /\ _state' = st.state
    /\ _active' = st.active
    /\ _reconnectTimeout' = st.reconnectTimeout
    /\ readyState' = st.readyState
    /\ listeners' = st.listeners
    /\ errored' = st.errored
    /\ timers' = st.timers
    /\ nextSock' = st.nextSock
    /\ nextTimer' = st.nextTimer
    /\ notified' = Notified(st.fx)

\* The model has a socket id left for every socket the handler constructed.
WithinBounds(st) == st.nextSock <= MaxSockets + 1

Init ==
    /\ _socket = 0
    /\ _state = "unconnected"
    /\ _active = FALSE
    /\ _reconnectTimeout = 0
    /\ readyState = [s \in SocketIds |-> "NONE"]
    /\ listeners = [s \in SocketIds |-> {}]
    /\ errored = [s \in SocketIds |-> FALSE]
    /\ timers = {}
    /\ nextSock = 1
    /\ nextTimer = 1
    /\ stale = {}
    /\ notified = FALSE
    /\ last = [op |-> "init", sock |-> 0, arg |-> "none", current |-> FALSE,
               fx |-> <<>>, thrown |-> NoError]

\* The user calls start().
Start ==
    /\ LET st == start(Cur)
       IN  /\ WithinBounds(st)
           /\ Commit(st)
           /\ last' = Ran("start", 0, "none", st)
    /\ UNCHANGED stale

\* The user calls stop().
Stop ==
    \E closeThrows \in BOOLEAN :
        \* close() raises only on a socket that is closing or closed already
        /\ closeThrows =>
              /\ _active
              /\ _socket # 0
              /\ readyState[_socket] \in {"CLOSING", "CLOSED"}
        /\ LET st == stop(Cur, closeThrows)
           IN  /\ Commit(st)
               /\ last' = Ran("stop", 0, IF closeThrows THEN "closeThrows" ELSE "none", st)
        /\ stale' = Created

\* The user calls send(message).
Send ==
    \E message \in Payloads, sendThrows \in BOOLEAN :
        /\ sendThrows =>
              /\ _state = "connected"
              /\ _socket # 0
              /\ readyState[_socket] # "OPEN"
        /\ LET st == send(Cur, message, sendThrows)
           IN  /\ Commit(st)
               /\ last' = Ran("send", 0, message, st)
        /\ UNCHANGED stale

\* A pending timer fires.
TimerFire ==
    \E t \in timers :
        /\ LET st == TimerCallback([Cur EXCEPT !.timers = @ \ {t}])
           IN  /\ WithinBounds(st)
               /\ Commit(st)
               /\ last' = Ran("timer", 0, "none", st)
        /\ UNCHANGED stale

\* Socket s finishes its handshake and dispatches open.
SocketOpens ==
    \E s \in Created :
        /\ readyState[s] = "CONNECTING"
        /\ LET st == Dispatch([Cur EXCEPT !.readyState[s] = "OPEN"], s, "open", "none")
           IN  /\ WithinBounds(st)
               /\ Commit(st)
               /\ last' = Heard("open", s, "none", st)
        /\ UNCHANGED stale

\* The connection of socket s starts to close without an event yet
\* (the peer's closing handshake, a network failure being detected).
SocketFails ==
    \E s \in Created :
        /\ readyState[s] = "OPEN"
        /\ Commit([Cur EXCEPT !.readyState[s] = "CLOSING"])
        /\ UNCHANGED <<stale, last>>

\* Socket s dispatches error (at most once, before its close event).
SocketErrors ==
    \E s \in Created, error \in Errors, api \in RemovalAPIs :
        /\ readyState[s] # "CLOSED"
        /\ ~errored[s]
        /\ LET st == Dispatch([WithAPI(Cur, api) EXCEPT !.readyState[s] = "CLOSING",
                                                        !.errored[s] = TRUE],
                              s, "error", error)
           IN  /\ WithinBounds(st)
               /\ Commit(st)
               /\ last' = Heard("error", s, error, st)
        /\ UNCHANGED stale

\* Socket s dispatches close: it is closed for good.
SocketCloses ==
    \E s \in Created, api \in RemovalAPIs :
        /\ readyState[s] # "CLOSED"
        /\ LET st == Dispatch([WithAPI(Cur, api) EXCEPT !.readyState[s] = "CLOSED",
                                                        !.errored[s] = TRUE],
                              s, "close", "none")
           IN  /\ WithinBounds(st)
               /\ Commit(st)
               /\ last' = Heard("close", s, "none", st)
        /\ UNCHANGED stale

\* Socket s dispatches message with a payload.
SocketMessage ==
    \E s \in Created, data \in Payloads :
        /\ readyState[s] = "OPEN"
        /\ LET st == Dispatch(Cur, s, "message", data)
           IN  /\ Commit(st)
               /\ last' = Heard("message", s, data, st)
        /\ UNCHANGED stale

Next ==
    \/ Start
    \/ Stop
    \/ Send
    \/ TimerFire
    \/ SocketOpens
    \/ SocketFails
    \/ SocketErrors
    \/ SocketCloses
    \/ SocketMessage

Spec == Init /\ [][Next]_vars

\* A scheduled timer fires in the end (setTimeout's contract).
LiveSpec == Spec /\ WF_vars(TimerFire)

\* ----------------------------------------------------------------- claims

\* A handler ran in this step and it was the handler of op.
Handled(op) == last' # last /\ last'.op = op

\* How often the transport emitted the notification `name` in a run.
Emitted(fx, name) ==
    Cardinality({i \in DOMAIN fx : fx[i].kind = "emit" /\ fx[i].name = name})

\* C1: whenever the transport is inactive (between handlers) its socket
\* reference is null: no socket is held or constructed while inactive.
C1_InactiveHoldsNoSocket == ~_active => _socket = 0

\* C2: at any time at most one retry timer is pending; a further failure
\* event handled before the timer fires schedules no second one.
C2_AtMostOneTimerPending == Cardinality(timers) <= 1

\* C3: only the current socket (if any) carries the standard listeners: a
\* socket the transport has let go of (stop(), then start()) has none left.
C3_OnlyCurrentSocketListens ==
    \A s \in Created : listeners[s] # {} => s = _socket

\* C4: once stop() has been called, an open, error or close event of a
\* socket constructed before that stop() schedules no retry timer and
\* constructs no socket, whatever happened in between.
C4_StaleEventSchedulesNothing ==
    [][ \A ev \in {"open", "error", "close"} :
          (Handled(ev) /\ last'.sock \in stale)
              => (timers' \subseteq timers /\ nextSock' = nextSock) ]_vars

\* C5: from a stop() to the next start() no socket is constructed, and a
\* retry-timer callback that runs while the transport is inactive is a
\* no-op: it constructs no socket and changes no state.
C5_TimerCallbackInactiveNoOp ==
    [][ /\ (~_active /\ ~_active') => nextSock' = nextSock
        /\ (~_active /\ Handled("timer"))
              => (nextSock' = nextSock /\ _socket' = _socket /\ _state' = _state) ]_vars

\* The readiness indicator send reports: the socket's readyState, or null.
Readiness == IF _socket = 0 THEN "null" ELSE readyState[_socket]

\* C6: send called while the state is unconnected, connecting or retrying
\* raises a SocketTransportStateError carrying exactly that state and the
\* socket's readyState (null without a socket), calls nothing on the
\* socket and emits no send notification.
C6_SendOutsideConnectedRaises ==
    [][ (Handled("send") /\ _state \in {"unconnected", "connecting", "retrying"})
            => /\ last'.thrown = SocketTransportStateError(_state, Readiness)
               /\ last'.fx = <<>> ]_vars

C6_Witness ==
    /\ last.op = "send"
    /\ last.thrown = SocketTransportStateError("retrying", "CLOSED")
    /\ _state = "retrying"

\* C7: send either completes or raises a SocketTransportStateError, never
\* an error of another kind.
C7_SendRaisesOnlyStateError ==
    last.op = "send" => last.thrown.name \in {"none", "SocketTransportStateError"}

\* C8: a socket open event sets the state to connected and emits exactly
\* one connect notification; connect is emitted only when the state changes
\* from a state other than connected into connected.
C8_ConnectOnlyOnTransition ==
    [][ /\ Handled("open")
            => (_state' = "connected" /\ Emitted(last'.fx, "connect") = 1)
        /\ (last' # last /\ Emitted(last'.fx, "connect") > 0)
            => (_state # "connected" /\ _state' = "connected") ]_vars

\* C9: a failure event (error or close) of the current socket that is open
\* emits exactly one disconnect notification, no failure event emits more
\* than one, and a failure event of a socket that never opened (it is still
\* connecting) emits none.
C9_DisconnectOncePerLoss ==
    [][ \A ev \in {"error", "close"} :
          Handled(ev) =>
            LET s == last'.sock
                n == Emitted(last'.fx, "disconnect")
            IN  /\ n <= 1
                /\ (s = _socket /\ readyState[s] = "OPEN") => n = 1
                /\ readyState[s] = "CONNECTING" => n = 0 ]_vars

\* The current socket has dispatched error or close while the transport
\* is active: an unplanned loss of the connection or of the attempt.
CurrentSocketLost == _active /\ _socket # 0 /\ errored[_socket]

\* The timer callback has just made a new connection attempt: a fresh
\* socket with the four standard listeners attached.
Reconnecting ==
    /\ last.op = "timer"
    /\ _socket # 0
    /\ readyState[_socket] = "CONNECTING"
    /\ listeners[_socket] = StandardEvents

\* C10: while the transport stays active, every unplanned close or error
\* of its current socket is followed by a new connection attempt, given
\* that a scheduled timer fires in the end (and that the model has a
\* socket id left to construct).
C10_LossLeadsToReconnect ==
    CurrentSocketLost ~> (Reconnecting \/ ~_active \/ nextSock > MaxSockets)

C10_Witness == Reconnecting /\ _active /\ nextSock <= MaxSockets

\* The transport's own fields and the timer table are left as they were.
TransportUnchanged ==
    UNCHANGED <<_socket, _state, _active, _reconnectTimeout, timers, nextTimer>>

\* No socket was constructed, closed, or given or relieved of listeners.
SocketsUnchanged == UNCHANGED <<nextSock, readyState, listeners>>

\* C11: start() on an active transport and stop() on an inactive one are
\* no-ops: they leave _active, _state, the socket reference and the timer
\* as they were, construct no socket and close none.
C11_RedundantCallsAreNoOps ==
    [][ /\ (Handled("start") /\ _active)
            => (TransportUnchanged /\ SocketsUnchanged /\ last'.fx = <<>>)
        /\ (Handled("stop") /\ ~_active)
            => (TransportUnchanged /\ SocketsUnchanged /\ last'.fx = <<>>) ]_vars

C11_Witness ==
    /\ last.op = "start"
    /\ last.fx = <<>>
    /\ _active
    /\ _socket # 0
    /\ readyState[_socket] = "OPEN"

C13_StopPostcondition ==
    [][ (Handled("stop") /\ _active)
            => /\ last'.thrown = NoError
               /\ _state' = "unconnected"
               /\ _socket' = 0
               /\ _reconnectTimeout' = 0
               /\ timers' = {}
               /\ ~_active' ]_vars

\* C14: between handlers the socket reference is non-null only in the
\* states connecting and connected; in unconnected and retrying no socket
\* is held.
C14_SocketOnlyWhileConnectingOrConnected ==
    _socket # 0 => _state \in {"connecting", "connected"}

\* C15: between handlers a retry timer handle is stored if and only if
\* the state is retrying.
C15_TimerIffRetrying == (_reconnectTimeout # 0) <=> (_state = "retrying")

C17_ErrorReportedThenDisconnect ==
    [][ Handled("error")
            => /\ last'.arg \in Errors
               /\ last'.fx[1] = Effect("emit", "error", 0, last'.arg)
               /\ Emitted(last'.fx, "error") = 1
               /\ Emitted(last'.fx, "disconnect") = (IF _state = "connected" THEN 1 ELSE 0)
               /\ listeners'[last'.sock] = {}
               /\ _socket' = _socket
               /\ _active => /\ _state' = "retrying"
                             /\ timers' = timers \cup {nextTimer}
                             /\ _reconnectTimeout' = nextTimer
               /\ ~_active => /\ _state' = "unconnected"
                              /\ timers' = timers
                              /\ _reconnectTimeout' = _reconnectTimeout ]_vars

\* C18: a send that passes the state check emits exactly one send
\* notification with the payload, and emits it before the payload is
\* handed to the socket; whether the send succeeds or fails, _state,
\* _active, the socket reference and the timer are unchanged.
C18_SendNotifiesBeforeTransmit ==
    [][ Handled("send")
            => /\ TransportUnchanged
               /\ SocketsUnchanged
               /\ _state = "connected"
                    => /\ Emitted(last'.fx, "send") = 1
                       /\ last'.fx[1] = Effect("emit", "send", 0, last'.arg)
                       /\ \A i \in DOMAIN last'.fx :
                            i > 1 => last'.fx[i] = Effect("call", "send", _socket, last'.arg)
                       /\ Len(last'.fx) <= 2 ]_vars

C18_Witness ==
    /\ last.op = "send"
    /\ last.thrown.name = "SocketTransportStateError"
    /\ last.thrown.state = "connected"
    /\ _socket # 0
    /\ last.fx = <<Effect("emit", "send", 0, "p2"), Effect("call", "send", _socket, "p2")>>

\* C19: between handlers an active transport either holds a socket that
\* carries the standard listeners or has a retry timer pending: something
\* is always left to drive the next connection attempt.
C19_ActiveNeverStalls ==
    _active => \/ (_socket # 0 /\ listeners[_socket] = StandardEvents)
               \/ timers # {}

C19_Witness ==
    /\ _active
    /\ _socket # 0
    /\ listeners[_socket] = {}
    /\ readyState[_socket] = "CLOSED"
    /\ _reconnectTimeout \in timers

\* C20: every disconnect notification is preceded by a connect
\* notification with no other disconnect in between: a handler emits at
\* most one disconnect, and only when the latest of the two notifications
\* so far was a connect.
C20_DisconnectFollowsConnect ==
    [][ (last' # last /\ Emitted(last'.fx, "disconnect") > 0)
            => /\ Emitted(last'.fx, "disconnect") = 1
               /\ Emitted(last'.fx, "connect") = 0
               /\ notified ]_vars

C20_Witness ==
    /\ ~notified
    /\ Emitted(last.fx, "disconnect") = 1
    /\ ~_active

=============================================================================
